---- MODULE Spec2Model ----
(***************************************************************************)
(* San Pedro court report auto-filler (app.py): the parsers                *)
(* (classify_crime_sheet1, classify_statutory_sheet8, parse_disposition,   *)
(* parse_sentence, is_juvenile, get_age_col_sheet5), the template filler   *)
(* fill_all_sheets and the period filter of the main script.               *)
(***************************************************************************)
EXTENDS Integers, Sequences, FiniteSets, TLC

VARIABLES
    df,            \* the table read from the data file (sequence of rows)
    template,      \* cells of the uploaded template workbook
    sheetnames,    \* wb.sheetnames of the uploaded template
    mode,          \* "New" or "Disposed" (sidebar radio)
    is_full_year,  \* sidebar checkbox
    report_month,  \* sidebar selectbox
    report_year,   \* sidebar number input
    df_filtered,   \* df[mask] handed to fill_all_sheets
    wb,            \* cells of the workbook being filled
    ws,            \* the local variable ws of fill_all_sheets
    pc,            \* position inside the button handler / fill_all_sheets
    i,             \* index of the running loop
    seen_cases,    \* fill_all_sheets: seen_cases
    rows_sheet1,   \* fill_all_sheets: rows_sheet1
    rows_sheet3,   \* fill_all_sheets: rows_sheet3
    hits,          \* per cell, the increment statements executed on it in this run
    runs,          \* runs of the button handler started so far
    arg,           \* input of the parser under test
    res            \* result of the parser under test

vars == <<df, template, sheetnames, mode, is_full_year, report_month, report_year,
          df_filtered, wb, ws, pc, i, seen_cases, rows_sheet1, rows_sheet3, hits,
          runs, arg, res>>

-----------------------------------------------------------------------------
(* Python values: text, integers, the missing value NaN of a data frame.   *)

Txt(s) == [s |-> s]
Num(n) == [n |-> n]
NaN == [nan |-> TRUE]
IsTxt(v) == "s" \in DOMAIN v
IsNum(v) == "n" \in DOMAIN v

LowerChars == "abcdefghijklmnopqrstuvwxyz"
UpperChars == "ABCDEFGHIJKLMNOPQRSTUVWXYZ"
Digits == "0123456789"

CharAt(s, k) == SubSeq(s, k, k)

IndexIn(alphabet, c) ==
    IF \E k \in 1..Len(alphabet) : CharAt(alphabet, k) = c
    THEN CHOOSE k \in 1..Len(alphabet) : CharAt(alphabet, k) = c
    ELSE 0

\* the letters with their upper-case and lower-case forms
UpperOf == [c \in {CharAt(LowerChars, k) : k \in 1..Len(LowerChars)} |->
               CharAt(UpperChars, IndexIn(LowerChars, c))]
LowerOf == [c \in {CharAt(UpperChars, k) : k \in 1..Len(UpperChars)} |->
               CharAt(LowerChars, IndexIn(UpperChars, c))]

UpperChar(c) == IF c \in DOMAIN UpperOf THEN UpperOf[c] ELSE c

LowerChar(c) == IF c \in DOMAIN LowerOf THEN LowerOf[c] ELSE c

RECURSIVE MapChars(_, _)
MapChars(s, up) ==
    IF s = "" THEN ""
    ELSE (IF up THEN UpperChar(CharAt(s, 1)) ELSE LowerChar(CharAt(s, 1)))
         \o MapChars(SubSeq(s, 2, Len(s)), up)

\* str.upper()
Upper(s) == MapChars(s, TRUE)

\* str.lower()
Lower(s) == MapChars(s, FALSE)

\* the Python test `k in s` on strings
Contains(s, k) ==
    \E p \in 1..(Len(s) - Len(k) + 1) : SubSeq(s, p, p + Len(k) - 1) = k

RECURSIVE LStrip(_)
LStrip(s) == IF s # "" /\ CharAt(s, 1) = " " THEN LStrip(SubSeq(s, 2, Len(s))) ELSE s

RECURSIVE RStrip(_)
RStrip(s) ==
    IF s # "" /\ CharAt(s, Len(s)) = " " THEN RStrip(SubSeq(s, 1, Len(s) - 1)) ELSE s

\* str.strip()
Strip(s) == LStrip(RStrip(s))

RECURSIVE NatToStr(_)
NatToStr(n) ==
    IF n < 10 THEN CharAt(Digits, n + 1)
    ELSE NatToStr(n \div 10) \o CharAt(Digits, (n % 10) + 1)

\* str(x)
Str(v) ==
    IF IsTxt(v) THEN v.s
    ELSE IF IsNum(v) THEN (IF v.n < 0 THEN "-" \o NatToStr(0 - v.n) ELSE NatToStr(v.n))
    ELSE "nan"

IsDigits(s) == s # "" /\ \A k \in 1..Len(s) : IndexIn(Digits, CharAt(s, k)) # 0

RECURSIVE DigitsToNat(_)
DigitsToNat(s) ==
    IF s = "" THEN 0
    ELSE 10 * DigitsToNat(SubSeq(s, 1, Len(s) - 1)) + (IndexIn(Digits, CharAt(s, Len(s))) - 1)

\* int(x): an integer, or ValueError
ValueError == [error |-> "ValueError"]
PyInt(v) ==
    IF IsNum(v) THEN Num(v.n)
    ELSE IF IsTxt(v)
    THEN LET t == Strip(v.s)
             neg == t # "" /\ CharAt(t, 1) = "-"
             body == IF t # "" /\ CharAt(t, 1) \in {"-", "+"} THEN SubSeq(t, 2, Len(t)) ELSE t
         IN IF IsDigits(body)
            THEN Num(IF neg THEN 0 - DigitsToNat(body) ELSE DigitsToNat(body))
            ELSE ValueError
    ELSE ValueError

\* row.get(key, default) of a data-frame row
Get(row, key, default) == IF key \in DOMAIN row THEN row[key] ELSE default

-----------------------------------------------------------------------------
(* The parsers.                                                            *)

AnyIn(keys, s) == \E k \in keys : Contains(s, k)

PoliceKeywords == {"POLICE", "PC ", "CPL ", "GOB"}

classify_charge(charge) ==
    IF Contains(charge, "ESCAPE") THEN 24
    ELSE IF Contains(charge, "PERJURY") THEN 23
    ELSE IF AnyIn({"DISORDERLY", "ABUSIVE", "THREAT"}, charge) THEN 22
    ELSE IF Contains(charge, "RAPE") THEN 27
    ELSE IF Contains(charge, "SEXUAL ASSAULT") THEN 28
    ELSE IF Contains(charge, "UNLAWFUL SEXUAL") THEN 29
    ELSE IF Contains(charge, "UNNATURAL") THEN 30
    ELSE IF Contains(charge, "ATTEMPT") /\ Contains(charge, "MURDER") THEN 35
    ELSE IF Contains(charge, "MURDER") THEN 33
    ELSE IF Contains(charge, "MANSLAUGHTER") THEN 34
    ELSE IF Contains(charge, "GRIEVOUS") THEN 36
    ELSE IF Contains(charge, "WOUNDING") THEN 37
    ELSE IF Contains(charge, "HARM") THEN 38
    ELSE IF Contains(charge, "AGGRAVATED ASSAULT") THEN 39
    ELSE IF Contains(charge, "COMMON ASSAULT") THEN 40
    ELSE IF Contains(charge, "ROBBERY") THEN 43
    ELSE IF Contains(charge, "BURGLARY") THEN 44
    ELSE IF Contains(charge, "THEFT") THEN 45
    ELSE IF Contains(charge, "DECEPTION") \/ Contains(charge, "FRAUD") THEN 46
    ELSE IF Contains(charge, "HANDLING") THEN 47
    ELSE IF Contains(charge, "DAMAGE") THEN 48
    ELSE IF Contains(charge, "ARSON") THEN 49
    ELSE IF Contains(charge, "FORGERY") THEN 52
    ELSE IF Contains(charge, "DRUG") \/ Contains(charge, "CANNABIS") THEN 54
    ELSE IF Contains(charge, "PIPE") THEN 57
    ELSE IF Contains(charge, "VEHICLE") THEN 58
    ELSE IF AnyIn({"TRAFFIC", "MOTOR", "LICENSE"}, charge) THEN 59
    ELSE IF Contains(charge, "FIREARM") \/ Contains(charge, "AMMUNITION") THEN 59
    ELSE 59

\* variant: the ESCAPE rule tested ahead of the police rule
classify_escape_first(charge_in, victim_in) ==
    LET charge == Upper(Str(charge_in))
        victim == Upper(Str(victim_in))
    IN IF Contains(charge, "ESCAPE") THEN 24
       ELSE IF AnyIn(PoliceKeywords, victim) /\ ~Contains(victim, "MINOR") THEN 25
       ELSE classify_charge(charge)

classify_crime_sheet1(charge_in, victim_in) ==
    LET charge == Upper(Str(charge_in))
        victim == Upper(Str(victim_in))
    IN IF AnyIn(PoliceKeywords, victim) /\ ~Contains(victim, "MINOR")
       THEN 25
       ELSE classify_charge(charge)

classify_statutory_sheet8(charge_in) ==
    LET c == Upper(Str(charge_in))
    IN IF Contains(c, "DRUG") \/ Contains(c, "CANNABIS") THEN 12
       ELSE IF Contains(c, "FIREARM") \/ Contains(c, "AMMUNITION") THEN 13
       ELSE IF Contains(c, "LIQUOR") THEN 14
       ELSE IF Contains(c, "POLICE") THEN 15
       ELSE IF Contains(c, "GAMBLING") THEN 16
       ELSE IF AnyIn({"TRAFFIC", "MOTOR", "LICENSE"}, c) THEN 17
       ELSE 18

parse_disposition(remark) ==
    LET r == Upper(Str(remark))
    IN IF AnyIn({"CONVICTED", "GUILTY", "FINE", "PRISON"}, r) THEN "CONVICTED"
       ELSE IF AnyIn({"ACQUITTED", "DISMISSED", "STRUCK", "DISCHARGED"}, r) THEN "DISMISSED"
       ELSE IF AnyIn({"WITHDRAWN", "NOLLE"}, r) THEN "NOLLE"
       ELSE "OTHER"

parse_sentence(sentence_text) ==
    LET s == Upper(Str(sentence_text))
    IN IF Contains(s, "FINE") \/ Contains(s, "$") THEN "FINE"
       ELSE IF AnyIn({"PRISON", "IMPRISONMENT", "CONFINEMENT", "MONTHS", "YEARS"}, s)
            THEN "PRISON"
       ELSE IF Contains(s, "PROBATION") \/ Contains(s, "BOND") THEN "PROBATION"
       ELSE IF Contains(s, "REFORM") \/ Contains(s, "SCHOOL") THEN "REFORMATORY"
       ELSE "OTHER"

is_juvenile(age) ==
    LET a == PyInt(age) IN IF a = ValueError THEN FALSE ELSE a.n <= 16

\* 'F' not in str(gender).upper()
IsMale(gender) == ~Contains(Upper(Str(gender)), "F")

None == "None"

\* variant: the first band closed at 15 (`a < 16`)
get_age_col_under16(age, gender) ==
    LET is_male == IsMale(gender)
        p == PyInt(age)
    IN IF p = ValueError THEN None
       ELSE LET a == p.n
            IN IF a < 16 THEN (IF is_male THEN "B" ELSE "C")
               ELSE IF a <= 25 THEN (IF is_male THEN "D" ELSE "E")
               ELSE IF a <= 35 THEN (IF is_male THEN "F" ELSE "G")
               ELSE IF a <= 45 THEN (IF is_male THEN "H" ELSE "I")
               ELSE (IF is_male THEN "J" ELSE "K")

get_age_col_sheet5(age, gender) ==
    LET is_male == IsMale(gender)
        p == PyInt(age)
    IN IF p = ValueError THEN None
       ELSE LET a == p.n
            IN IF a <= 16 THEN (IF is_male THEN "B" ELSE "C")
               ELSE IF 17 <= a /\ a <= 25 THEN (IF is_male THEN "D" ELSE "E")
               ELSE IF 26 <= a /\ a <= 35 THEN (IF is_male THEN "F" ELSE "G")
               ELSE IF 36 <= a /\ a <= 45 THEN (IF is_male THEN "H" ELSE "I")
               ELSE IF a >= 46 THEN (IF is_male THEN "J" ELSE "K")
               ELSE None

-----------------------------------------------------------------------------
(* The workbook: a partial map from <<sheet, column, row>> to a cell       *)
(* content; a cell that is not in the map reads as None.                   *)

NoValue == [none |-> TRUE]      \* .value of an empty cell
Merged == [merged |-> TRUE]     \* a read-only MergedCell; its .value is None
Undef == "undefined"

CellValue(cells, a) == IF a \in DOMAIN cells THEN cells[a] ELSE NoValue

\* `v or 0`
OrZero(v) == IF v = NoValue \/ v = Merged \/ v = Txt("") \/ v = Num(0) THEN Num(0) ELSE v

SetCell(cells, a, v) == [b \in (DOMAIN cells) \cup {a} |-> IF b = a THEN v ELSE cells[b]]

\* variant: a cell that holds no number is overwritten as if it held 0
IncrementCoercing(cells, w, col, row) ==
    IF w = Undef \/ row < 1 THEN cells
    ELSE LET a == <<w, col, row>>
             curr == OrZero(CellValue(cells, a))
         IN SetCell(cells, a, Num((IF IsNum(curr) THEN curr.n ELSE 0) + 1))

\* try: w[f"{col}{row}"] = (w[f"{col}{row}"].value or 0) + 1
\* except: pass
Increment(cells, w, col, row) ==
    IF w = Undef THEN cells                         \* NameError
    ELSE IF row < 1 THEN cells                      \* invalid coordinate
    ELSE LET a == <<w, col, row>>
             curr == OrZero(CellValue(cells, a))
         IN IF ~IsNum(curr) THEN cells              \* TypeError: str + int
            ELSE IF CellValue(cells, a) = Merged THEN cells   \* read-only cell
            ELSE SetCell(cells, a, Num(curr.n + 1))

-----------------------------------------------------------------------------
(* fill_all_sheets(template_file, df, mode), one loop iteration per step.  *)
(* st holds the arguments (sheetnames, df, mode) and the locals.           *)

PhaseSheet(p) ==
    CASE p = "sheet1" -> "Sheet1"
      [] p = "sheet3" -> "Sheet3"
      [] p = "sheet8" -> "Sheet8"
      [] p = "sheet2" -> "Sheet2"
      [] OTHER -> Undef

PhaseAfter(p, m) ==
    CASE p = "classify" -> "sheet1"
      [] p = "sheet1" -> "sheet3"
      [] p = "sheet3" -> "sheet8"
      [] p = "sheet8" -> IF m = "Disposed" THEN "sheet2" ELSE "done"
      [] p = "sheet2" -> "convicted"
      [] OTHER -> "done"

PhaseLen(st) == IF st.pc = "sheet1" THEN Len(st.rows_sheet1)
                ELSE IF st.pc = "sheet3" THEN Len(st.rows_sheet3)
                ELSE Len(st.df)

\* the guard `if 'SheetN' in wb.sheetnames` of a section
PhaseOpen(st) == PhaseSheet(st.pc) = Undef \/ PhaseSheet(st.pc) \in st.sheetnames

\* runs the control flow up to the next loop body: a section whose sheet is
\* missing is skipped, a section that is entered binds ws first
RECURSIVE Settle(_)
Settle(st) ==
    IF st.pc = "done" THEN st
    ELSE IF PhaseOpen(st) /\ st.i <= PhaseLen(st) THEN st
    ELSE LET p == PhaseAfter(st.pc, st.mode)
             s == PhaseSheet(p)
         IN Settle([st EXCEPT !.pc = p, !.i = 1,
                              !.ws = IF s # Undef /\ s \in st.sheetnames THEN s ELSE @])

Enter(cells, sheets, d, m) ==
    Settle([wb |-> cells, sheetnames |-> sheets, df |-> d, mode |-> m,
            ws |-> Undef, pc |-> "classify", i |-> 1, hits |-> <<>>,
            seen_cases |-> {}, rows_sheet1 |-> <<>>, rows_sheet3 |-> <<>>])

\* c = [wb, ws, hits]: the workbook, the binding of ws and the log of increments
Cells(st) == [wb |-> st.wb, ws |-> st.ws, hits |-> st.hits]

\* ws = wb[sheet]
Bind(c, sheet) == [c EXCEPT !.ws = sheet]

Logged(h, a) == [b \in (DOMAIN h) \cup {a} |-> IF b \in DOMAIN h
                                                THEN (IF b = a THEN h[b] + 1 ELSE h[b])
                                                ELSE 1]

\* one guarded increment statement through ws; `if col:` skips a None column
Bump(c, col, row) ==
    IF col = None THEN c
    ELSE [c EXCEPT !.wb = Increment(@, c.ws, col, row),
                   !.hits = IF c.ws # Undef /\ row >= 1
                            THEN Logged(@, <<c.ws, col, row>>) ELSE @]

RowNum(row) ==
    classify_crime_sheet1(Get(row, "CHARGE", Txt("")), Get(row, "VICTIM", Txt("")))

\* variant: every row is appended to rows_sheet1 (no `not in seen_cases` test)
ClassifyStepEveryRow(st) ==
    LET e == st.df[st.i]
        r_num == RowNum(e.row)
        case_id == Get(e.row, "CASEID", Num(e.idx))
    IN [st EXCEPT !.rows_sheet3 = Append(@, r_num),
                  !.rows_sheet1 = Append(@, r_num),
                  !.seen_cases = @ \cup {case_id},
                  !.i = @ + 1]

\* variant: rows_sheet3 is appended inside the `not in seen_cases` branch too
ClassifyStepFirstRowOnly(st) ==
    LET e == st.df[st.i]
        r_num == RowNum(e.row)
        case_id == Get(e.row, "CASEID", Num(e.idx))
        fresh == case_id \notin st.seen_cases
    IN [st EXCEPT !.rows_sheet3 = IF fresh THEN Append(@, r_num) ELSE @,
                  !.rows_sheet1 = IF fresh THEN Append(@, r_num) ELSE @,
                  !.seen_cases = IF fresh THEN @ \cup {case_id} ELSE @,
                  !.i = @ + 1]

\* lines 148-155
ClassifyStep(st) ==
    LET e == st.df[st.i]
        r_num == RowNum(e.row)
        case_id == Get(e.row, "CASEID", Num(e.idx))
        fresh == case_id \notin st.seen_cases
    IN [st EXCEPT !.rows_sheet3 = Append(@, r_num),
                  !.rows_sheet1 = IF fresh THEN Append(@, r_num) ELSE @,
                  !.seen_cases = IF fresh THEN @ \cup {case_id} ELSE @,
                  !.i = @ + 1]

CountCol(m) == IF m = "New" THEN "D" ELSE "J"

\* lines 161-165
Sheet1Step(st) ==
    LET c == Bump(Cells(st), CountCol(st.mode), st.rows_sheet1[st.i])
    IN [st EXCEPT !.wb = c.wb, !.hits = c.hits, !.i = @ + 1]

\* lines 171-175
Sheet3Step(st) ==
    LET c == Bump(Cells(st), CountCol(st.mode), st.rows_sheet3[st.i])
    IN [st EXCEPT !.wb = c.wb, !.hits = c.hits, !.i = @ + 1]

\* lines 180-194
Sheet8Step(st) ==
    LET row == st.df[st.i].row
        stat_row == classify_statutory_sheet8(Get(row, "CHARGE", Txt("")))
        disp == parse_disposition(Get(row, "REMARK", Txt("")))
        col == IF st.mode = "New" THEN "C"
               ELSE IF st.mode = "Disposed"
               THEN (IF disp = "CONVICTED" THEN "E"
                     ELSE IF disp = "DISMISSED" THEN "F" ELSE None)
               ELSE None
        c == Bump(Cells(st), col, stat_row)
    IN [st EXCEPT !.wb = c.wb, !.hits = c.hits, !.i = @ + 1]

Sheet2Col(disp) ==
    CASE disp = "CONVICTED" -> "E"
      [] disp = "DISMISSED" -> "C"
      [] disp = "NOLLE" -> "D"
      [] OTHER -> None

\* lines 202-208
Sheet2Step(st) ==
    LET row == st.df[st.i].row
        r_num == RowNum(row)
        target_col == Sheet2Col(parse_disposition(Get(row, "REMARK", Txt(""))))
        c == Bump(Cells(st), target_col, r_num)
    IN [st EXCEPT !.wb = c.wb, !.hits = c.hits, !.i = @ + 1]

Sheet4Col(sent_type, is_male) ==
    CASE sent_type = "PRISON" -> IF is_male THEN "D" ELSE "E"
      [] sent_type = "PROBATION" -> IF is_male THEN "F" ELSE "G"
      [] sent_type = "FINE" -> IF is_male THEN "H" ELSE "I"
      [] OTHER -> None

Sheet7Col(sent_type) ==
    CASE sent_type = "PRISON" -> "B"
      [] sent_type = "PROBATION" -> "C"
      [] sent_type = "FINE" -> "D"
      [] sent_type = "REFORMATORY" -> "E"
      [] OTHER -> None

Sheet9Col(sent_type, is_male) ==
    CASE sent_type = "PRISON" -> IF is_male THEN "D" ELSE "E"
      [] sent_type = "PROBATION" -> IF is_male THEN "B" ELSE "C"
      [] sent_type = "FINE" -> IF is_male THEN "F" ELSE "G"
      [] OTHER -> None

\* lines 240-243: the Sheet6 section increments through ws without binding it
JuvenileOffence(c, juv_row) == Bump(c, "F", juv_row)

\* variant: the convicted loop without its `continue` for other dispositions
ConvictedStepEveryRow(st) ==
    LET row == st.df[st.i].row
        r_num == RowNum(row)
        gender == Get(row, "GENDER", Txt("M"))
        sent_type == parse_sentence(Get(row, "SENTENCE", Txt("")))
        c4 == IF "Sheet4" \in st.sheetnames
              THEN Bump(Bind(Cells(st), "Sheet4"), Sheet4Col(sent_type, IsMale(gender)), r_num)
              ELSE Cells(st)
        c5 == IF "Sheet5" \in st.sheetnames
              THEN Bump(Bind(c4, "Sheet5"),
                        get_age_col_sheet5(Get(row, "AGE", Num(0)), gender), r_num - 11)
              ELSE c4
    IN [st EXCEPT !.wb = c5.wb, !.ws = c5.ws, !.hits = c5.hits, !.i = @ + 1]

\* lines 211-261, one row of the convicted loop
ConvictedStep(st) ==
    LET row == st.df[st.i].row
        has(s) == s \in st.sheetnames
        r_num == RowNum(row)
        gender == Get(row, "GENDER", Txt("M"))
        is_male == IsMale(gender)
        age == Get(row, "AGE", Num(0))
        sent_type == parse_sentence(Get(row, "SENTENCE", Txt("")))
        juv_row == r_num - 14
        stat_row == classify_statutory_sheet8(Get(row, "CHARGE", Txt("")))
        c0 == Cells(st)
        c4 == IF has("Sheet4")
              THEN Bump(Bind(c0, "Sheet4"), Sheet4Col(sent_type, is_male), r_num) ELSE c0
        c5 == IF has("Sheet5")
              THEN Bump(Bind(c4, "Sheet5"), get_age_col_sheet5(age, gender), r_num - 11)
              ELSE c4
        c6 == IF is_juvenile(age) /\ has("Sheet6") THEN JuvenileOffence(c5, juv_row) ELSE c5
        c7 == IF is_juvenile(age) /\ has("Sheet7")
              THEN Bump(Bind(c6, "Sheet7"), Sheet7Col(sent_type), juv_row) ELSE c6
        c9 == IF has("Sheet9")
              THEN Bump(Bind(c7, "Sheet9"), Sheet9Col(sent_type, is_male), stat_row) ELSE c7
    IN IF parse_disposition(Get(row, "REMARK", Txt(""))) # "CONVICTED"
       THEN [st EXCEPT !.i = @ + 1]
       ELSE [st EXCEPT !.wb = c9.wb, !.ws = c9.ws, !.hits = c9.hits, !.i = @ + 1]

BodyStep(st) ==
    CASE st.pc = "classify" -> ClassifyStep(st)
      [] st.pc = "sheet1" -> Sheet1Step(st)
      [] st.pc = "sheet3" -> Sheet3Step(st)
      [] st.pc = "sheet8" -> Sheet8Step(st)
      [] st.pc = "sheet2" -> Sheet2Step(st)
      [] st.pc = "convicted" -> ConvictedStep(st)

\* one loop iteration and the control flow that follows it
Step(st) == Settle(BodyStep(st))

RECURSIVE RunToEnd(_)
RunToEnd(st) == IF st.pc = "done" THEN st ELSE RunToEnd(Step(st))

\* the workbook fill_all_sheets returns
fill_all_sheets(cells, sheets, d, m) == RunToEnd(Enter(cells, sheets, d, m)).wb

-----------------------------------------------------------------------------
(* The period filter of the main script (lines 286-300).                   *)

Date(y, m, d) == [y |-> y, m |-> m, d |-> d]
NaT == [nat |-> TRUE]

DaysIn(y, m) ==
    IF m = 2 THEN (IF (y % 4 = 0 /\ y % 100 # 0) \/ y % 400 = 0 THEN 29 ELSE 28)
    ELSE IF m \in {4, 6, 9, 11} THEN 30 ELSE 31

\* a text in the form YYYY-MM-DD; any other text met here is no date
ParseDate(s) ==
    IF Len(s) = 10 /\ CharAt(s, 5) = "-" /\ CharAt(s, 8) = "-"
       /\ IsDigits(SubSeq(s, 1, 4)) /\ IsDigits(SubSeq(s, 6, 7)) /\ IsDigits(SubSeq(s, 9, 10))
    THEN LET y == DigitsToNat(SubSeq(s, 1, 4))
             m == DigitsToNat(SubSeq(s, 6, 7))
             d == DigitsToNat(SubSeq(s, 9, 10))
         IN IF y >= 1 /\ m \in 1..12 /\ d >= 1 /\ d <= DaysIn(y, m)
            THEN Date(y, m, d) ELSE NaT
    ELSE NaT

\* pd.to_datetime(value, errors='coerce') of one cell
to_datetime(v) ==
    IF "y" \in DOMAIN v THEN v
    ELSE IF IsTxt(v) THEN ParseDate(Strip(v.s))
    ELSE NaT

StartsWith(s, prefix) == Len(s) >= Len(prefix) /\ SubSeq(s, 1, Len(prefix)) = prefix

DateCol(m) == IF StartsWith(m, "New") THEN "DATE_ARR" ELSE "DATE_DISP"
FillMode(m) == IF StartsWith(m, "New") THEN "New" ELSE "Disposed"

\* variant: the month mask without its year test
MaskMonthOnly(row, date_col, full, month, year) ==
    LET d == to_datetime(row[date_col])
    IN IF d = NaT THEN FALSE
       ELSE IF full THEN d.y = year
       ELSE d.m = month

\* line 294 / line 297: comparisons with NaT are False
Mask(row, date_col, full, month, year) ==
    LET d == to_datetime(row[date_col])
    IN IF d = NaT THEN FALSE
       ELSE IF full THEN d.y = year
       ELSE d.m = month /\ d.y = year

\* df[mask].copy(): the selected rows in order, each with its index label
RECURSIVE Filter(_, _, _, _, _, _)
Filter(rows, k, date_col, full, month, year) ==
    IF k > Len(rows) THEN <<>>
    ELSE (IF Mask(rows[k], date_col, full, month, year)
          THEN <<[idx |-> k - 1, row |-> rows[k]]>> ELSE <<>>)
         \o Filter(rows, k + 1, date_col, full, month, year)

\* df.columns
Columns(rows) == IF Len(rows) = 0 THEN {} ELSE DOMAIN rows[1]

-----------------------------------------------------------------------------
(* Inputs.                                                                 *)

MaxRows == 2    \* rows of the data file
MaxRuns == 2    \* presses of the button, each on the previous output

AllSheets == {"Sheet1", "Sheet2", "Sheet3", "Sheet4", "Sheet5",
              "Sheet6", "Sheet7", "Sheet8", "Sheet9"}

Row(case, charge, victim, arr, disp, age, gender, sentence, remark) ==
    [CASEID |-> case, CHARGE |-> charge, VICTIM |-> victim, DATE_ARR |-> arr,
     DATE_DISP |-> disp, AGE |-> age, GENDER |-> gender, SENTENCE |-> sentence,
     REMARK |-> remark]

RowPool ==
    { Row(Txt("CB-100"), Txt("Theft"), Txt("John Doe"),
          Date(2025, 3, 10), Date(2025, 4, 2),
          Num(15), Txt("M"), Txt("Fine $200"), Txt("Convicted")),
      Row(Txt("CB-100"), Txt("Murder"), NaN,
          Date(2025, 3, 10), Date(2025, 4, 2),
          Num(30), Txt("F"), Txt("10 years"), Txt("Guilty")),
      Row(Txt("CB-101"), Txt("Possession of cannabis"), Txt("Pc Jones"),
          Date(2025, 3, 21), Txt("2025-04-30"),
          Txt("16"), Txt("female"), Txt("Probation"), Txt("Case dismissed")),
      Row(Txt("CB-102"), Txt("Burglary"), Txt("minor (Police report)"),
          Txt("pending"), Date(2025, 4, 15),
          Num(12), Txt("F"), Txt("Reform school"), Txt("found guilty")),
      Row(Txt("CB-101"), Txt("Careless driving of motor vehicle"), Txt("GOB"),
          Date(2024, 4, 7), Date(2025, 4, 7),
          Txt("abc"), Txt("M"), NaN, Txt("Withdrawn")),
      Row(Txt("CB-103"), Txt("Jaywalking"), Txt("Jane Roe"),
          Date(2025, 3, 30), Txt("2025-04-31"),
          Num(46), Txt("Male"), Txt("Bond"), NaN) }

\* the data frame keeps the columns that smart_read_excel found
ColumnChoices ==
    { DOMAIN Row(NaN, NaN, NaN, NaN, NaN, NaN, NaN, NaN, NaN),
      {"CHARGE", "DATE_ARR", "REMARK"} }

Project(row, cols) == [c \in cols |-> row[c]]

Tables ==
    UNION { { [k \in 1..n |-> Project(t[k], cols)] : t \in [1..n -> RowPool] } :
            n \in 0..MaxRows, cols \in ColumnChoices }

Cell(sheet, col, row) == <<sheet, col, row>>

PrefilledCells ==
    (Cell("Sheet1", "J", 45) :> Num(5)) @@ (Cell("Sheet1", "D", 45) :> Num(5))
    @@ (Cell("Sheet1", "J", 33) :> Txt("")) @@ (Cell("Sheet1", "D", 33) :> Txt("n/a"))
    @@ (Cell("Sheet3", "J", 45) :> Txt("n/a")) @@ (Cell("Sheet3", "D", 45) :> Merged)
    @@ (Cell("Sheet3", "J", 33) :> Num(2)) @@ (Cell("Sheet2", "E", 45) :> Txt("=SUM(E43:E44)"))
    @@ (Cell("Sheet8", "F", 12) :> Num(1)) @@ (Cell("Sheet5", "F", 31) :> Num(3))
    @@ (Cell("Sheet4", "H", 45) :> Num(7))

Templates ==
    { [sheets |-> AllSheets, cells |-> <<>>],
      [sheets |-> AllSheets, cells |-> PrefilledCells],
      [sheets |-> {"Sheet1", "Sheet3", "Sheet6", "Sheet9"}, cells |-> <<>>],
      [sheets |-> {"Sheet6", "Sheet7"}, cells |-> <<>>] }

ModeChoices == {"New Cases (Arraignments)", "Disposed Cases (Concluded)"}

\* report_month is not bound when the full-year box is ticked (line 274)
Periods ==
    { [full |-> FALSE, month |-> 3, year |-> 2025],
      [full |-> FALSE, month |-> 4, year |-> 2025],
      [full |-> TRUE, month |-> Undef, year |-> 2025] }

-----------------------------------------------------------------------------
(* The button handler (lines 278-321).                                     *)

Idle ==
    /\ df_filtered = <<>> /\ ws = Undef /\ i = 1 /\ seen_cases = {}
    /\ rows_sheet1 = <<>> /\ rows_sheet3 = <<>> /\ hits = <<>>

Init ==
    /\ df \in Tables
    /\ \E t \in Templates : template = t.cells /\ sheetnames = t.sheets
    /\ mode \in ModeChoices
    /\ \E p \in Periods :
          is_full_year = p.full /\ report_month = p.month /\ report_year = p.year
    /\ wb = template
    /\ pc = "idle"
    /\ runs = 0
    /\ Idle
    /\ arg = NoValue /\ res = NoValue

Locals ==
    [wb |-> wb, sheetnames |-> sheetnames, df |-> df_filtered, mode |-> FillMode(mode),
     ws |-> ws, pc |-> pc, i |-> i, hits |-> hits,
     seen_cases |-> seen_cases, rows_sheet1 |-> rows_sheet1, rows_sheet3 |-> rows_sheet3]

Become(st) ==
    /\ wb' = st.wb /\ ws' = st.ws /\ pc' = st.pc /\ i' = st.i /\ hits' = st.hits
    /\ seen_cases' = st.seen_cases
    /\ rows_sheet1' = st.rows_sheet1 /\ rows_sheet3' = st.rows_sheet3

\* lines 283-304 on the template `cells`: stop on a missing date column, else
\* filter by period and enter fill_all_sheets
Handle(cells) ==
    IF DateCol(mode) \notin Columns(df)
    THEN /\ pc' = "stopped"
         /\ wb' = cells
         /\ UNCHANGED <<df_filtered, ws, i, seen_cases, rows_sheet1, rows_sheet3, hits>>
    ELSE LET selected == Filter(df, 1, DateCol(mode), is_full_year, report_month, report_year)
         IN /\ df_filtered' = selected
            /\ Become(Enter(cells, sheetnames, selected, FillMode(mode)))

Process ==
    /\ pc = "idle"
    /\ runs' = 1
    /\ Handle(template)
    /\ UNCHANGED <<df, template, sheetnames, mode, is_full_year, report_month,
                   report_year, arg, res>>

\* the downloaded report is uploaded as the template and the button pressed again
ProcessAgain ==
    /\ pc = "done"
    /\ runs < MaxRuns
    /\ runs' = runs + 1
    /\ template' = wb
    /\ Handle(wb)
    /\ UNCHANGED <<df, sheetnames, mode, is_full_year, report_month, report_year,
                   arg, res>>

LoopFrame ==
    UNCHANGED <<df, template, sheetnames, mode, is_full_year, report_month,
                report_year, df_filtered, runs, arg, res>>

ClassifyRow == pc = "classify" /\ Become(Settle(ClassifyStep(Locals))) /\ LoopFrame
FillSheet1 == pc = "sheet1" /\ Become(Settle(Sheet1Step(Locals))) /\ LoopFrame
FillSheet3 == pc = "sheet3" /\ Become(Settle(Sheet3Step(Locals))) /\ LoopFrame
FillSheet8 == pc = "sheet8" /\ Become(Settle(Sheet8Step(Locals))) /\ LoopFrame
FillSheet2 == pc = "sheet2" /\ Become(Settle(Sheet2Step(Locals))) /\ LoopFrame
ConvictedRow == pc = "convicted" /\ Become(Settle(ConvictedStep(Locals))) /\ LoopFrame

Next ==
    \/ Process
    \/ ProcessAgain
    \/ ClassifyRow
    \/ FillSheet1
    \/ FillSheet3
    \/ FillSheet8
    \/ FillSheet2
    \/ ConvictedRow

Spec == Init /\ [][Next]_vars

-----------------------------------------------------------------------------
(* Vocabulary of the properties.                                           *)

Disposed == FillMode(mode) = "Disposed"
Finished == pc = "done"
FullTemplate == sheetnames = AllSheets

\* an empty cell, an empty text or a number: what `value or 0` turns into a number
Countable(v) == v = NoValue \/ v = Txt("") \/ IsNum(v)
AsCount(v) == IF IsNum(v) THEN v.n ELSE 0

Addresses(a, b) == (DOMAIN a) \cup (DOMAIN b)
OnSheet(cells, sheet) == {a \in DOMAIN cells : a[1] = sheet}

Delta(before, after, a) ==
    IF CellValue(after, a) = CellValue(before, a) THEN 0
    ELSE AsCount(CellValue(after, a)) - AsCount(CellValue(before, a))

RECURSIVE SumDelta(_, _, _)
SumDelta(before, after, S) ==
    IF S = {} THEN 0
    ELSE LET a == CHOOSE x \in S : TRUE
         IN Delta(before, after, a) + SumDelta(before, after, S \ {a})

\* the total of the increments a run made to one sheet
Gain(before, after, sheet) ==
    SumDelta(before, after, {a \in Addresses(before, after) : a[1] = sheet})

Kept == 1..Len(df_filtered)
RowAt(k) == df_filtered[k].row
CaseIds == {RowAt(k).CASEID : k \in Kept}
FirstOfCase(k) == \A j \in 1..(k - 1) : RowAt(j).CASEID # RowAt(k).CASEID
Disposition(k) == parse_disposition(Get(RowAt(k), "REMARK", Txt("")))

-----------------------------------------------------------------------------
(* C1: with all nine sheets present and the cells the run increments on    *)
(* Sheet1 (Sheet3) empty or numeric, the increments made to Sheet1 total   *)
(* the number of distinct CASEID values, each case counted at the row id   *)
(* of its first row, and the increments made to Sheet3 total the number of *)
(* rows.                                                                   *)
C1_CasesOncePersonsAll ==
    (Finished /\ FullTemplate /\ "CASEID" \in Columns(df)) =>
        /\ (\A a \in OnSheet(hits, "Sheet1") : Countable(CellValue(template, a))) =>
              /\ Gain(template, wb, "Sheet1") = Cardinality(CaseIds)
              /\ \A a \in OnSheet(hits, "Sheet1") :
                    Delta(template, wb, a) =
                        Cardinality({k \in Kept : FirstOfCase(k) /\ RowNum(RowAt(k)) = a[3]})
        /\ (\A a \in OnSheet(hits, "Sheet3") : Countable(CellValue(template, a))) =>
              Gain(template, wb, "Sheet3") = Len(df_filtered)

C1_Witness ==
    /\ Finished /\ FullTemplate /\ "CASEID" \in Columns(df)
    /\ Len(df_filtered) = 2
    /\ RowAt(1).CASEID = RowAt(2).CASEID
    /\ RowAt(1).CHARGE # RowAt(2).CHARGE
    /\ Gain(template, wb, "Sheet1") = 1
    /\ Gain(template, wb, "Sheet3") = 2

(* C2 (as stated): after a run every incremented cell holds its value      *)
(* before the run, taken as 0 when it was empty or not a number, plus the  *)
(* number of increments made to it.                                        *)
C2_AdditiveNonNumericAsZero ==
    Finished =>
        \A a \in DOMAIN hits :
            CellValue(wb, a) = Num(AsCount(CellValue(template, a)) + hits[a])

(* C2 (amended): a cell that was empty or numeric holds its old value      *)
(* (empty as 0) plus the number of increments made to it; a cell holding   *)
(* a non-empty text, or a merged cell, keeps its content and the           *)
(* increments are dropped; no other cell changes.                          *)
C2_AdditiveOrDropped ==
    Finished =>
        /\ \A a \in DOMAIN hits :
              IF Countable(CellValue(template, a))
              THEN CellValue(wb, a) = Num(AsCount(CellValue(template, a)) + hits[a])
              ELSE CellValue(wb, a) = CellValue(template, a)
        /\ \A a \in Addresses(template, wb) \ DOMAIN hits :
              CellValue(wb, a) = CellValue(template, a)

C2_Witness ==
    /\ Finished /\ runs = 2
    /\ \E a \in DOMAIN hits :
          /\ hits[a] = 1
          /\ CellValue(template, a) = Num(6)
          /\ CellValue(wb, a) = Num(7)
          /\ CellValue(PrefilledCells, a) = Num(5)

(* C5: once the handler has filtered, df_filtered holds exactly the rows   *)
(* whose relevant date (DATE_ARR in New mode, DATE_DISP in Disposed mode)  *)
(* is a valid date in the report year and, unless full-year, the report    *)
(* month, in their order; a row with an unparseable relevant date is left  *)
(* out and the run goes on.                                                *)
RelevantDate(row) ==
    to_datetime(IF mode = "New Cases (Arraignments)" THEN row.DATE_ARR ELSE row.DATE_DISP)

InPeriod(row) ==
    /\ RelevantDate(row) # NaT
    /\ RelevantDate(row).y = report_year
    /\ (is_full_year \/ RelevantDate(row).m = report_month)

C5_PeriodFilter ==
    (pc \notin {"idle", "stopped"}) =>
        /\ \A k \in 1..Len(df) :
              InPeriod(df[k]) <=>
                  \E j \in Kept : df_filtered[j] = [idx |-> k - 1, row |-> df[k]]
        /\ \A j \in Kept : df_filtered[j].idx \in 0..(Len(df) - 1)
        /\ \A j \in Kept : \A h \in Kept : j < h => df_filtered[j].idx < df_filtered[h].idx

C5_Witness ==
    /\ Finished
    /\ Len(df) = 2 /\ Len(df_filtered) = 1
    /\ \E k \in 1..2 : RelevantDate(df[k]) = NaT
    /\ \E a \in DOMAIN hits : hits[a] = 1

\* the cells a step changed
Changed == {a \in Addresses(wb, wb') : CellValue(wb', a) # CellValue(wb, a)}

NonConvictedRowStep ==
    /\ Disposed
    /\ pc \in {"sheet8", "sheet2", "convicted"}
    /\ Disposition(i) # "CONVICTED"

(* C6 (as stated): in Disposed mode the steps that handle a row whose      *)
(* disposition is not CONVICTED change no cell of Sheets 4 to 9: only the  *)
(* disposal breakdown of Sheet2.                                           *)
C6_NonConvictedOnlyMainTallies ==
    [][NonConvictedRowStep => \A a \in Changed : a[1] = "Sheet2"]_vars

(* C6 (amended): in Disposed mode the steps that handle a row whose        *)
(* disposition is not CONVICTED change no cell of Sheets 4, 5, 6, 7, 9 and *)
(* no cell of column E of Sheet8; a DISMISSED row is counted in column F   *)
(* of Sheet8 at its statutory row, besides the breakdown of Sheet2.        *)
C6_NonConvictedSheet8Dismissed ==
    [][NonConvictedRowStep =>
          \A a \in Changed :
              \/ a[1] = "Sheet2"
              \/ /\ a[1] = "Sheet8" /\ a[2] = "F"
                 /\ Disposition(i) = "DISMISSED"
                 /\ a[3] = classify_statutory_sheet8(Get(RowAt(i), "CHARGE", Txt("")))]_vars

C6_Witness ==
    /\ Disposed /\ pc = "convicted" /\ runs = 1
    /\ \E k \in Kept : Disposition(k) = "DISMISSED"
    /\ \E a \in DOMAIN hits : a[1] = "Sheet8" /\ a[2] = "F" /\ CellValue(wb, a) = Num(1)
    /\ \E a \in DOMAIN hits : a[1] = "Sheet2" /\ a[2] = "C"

Perms(n) == {f \in [1..n -> 1..n] : \A x \in 1..n : \A y \in 1..n : f[x] = f[y] => x = y}
Permuted(rows, f) == [k \in 1..Len(rows) |-> rows[f[k]]]

\* the workbook the same call returns when the rows come in the order f
Refilled(f) ==
    fill_all_sheets(template, sheetnames, Permuted(df_filtered, f), FillMode(mode))

(* C7 (as stated), on a template with all nine sheets: for every           *)
(* permutation of the rows, fill_all_sheets run from the same template     *)
(* ends with the same value in every cell of every sheet.                  *)
C7_EveryCellOrderIndependent ==
    (Finished /\ FullTemplate) => \A f \in Perms(Len(df_filtered)) : Refilled(f) = wb

(* C7 (amended): on a template with all nine sheets, for every permutation *)
(* of the rows every cell of every sheet other than Sheet1 ends with the   *)
(* same value, and when no Sheet1 cell of the template holds a text or is  *)
(* merged the total of Sheet1 is the same too; the Sheet1 cell that a case *)
(* increments is the one of whichever of its rows comes first.             *)
C7_OrderIndependentButFirstRow ==
    (Finished /\ FullTemplate) =>
        \A f \in Perms(Len(df_filtered)) : \A other \in {Refilled(f)} :
            /\ \A a \in Addresses(wb, other) :
                  a[1] # "Sheet1" => CellValue(other, a) = CellValue(wb, a)
            /\ (\A a \in OnSheet(template, "Sheet1") : Countable(template[a])) =>
                  Gain(template, other, "Sheet1") = Gain(template, wb, "Sheet1")

C7_Witness ==
    /\ Finished /\ FullTemplate /\ Disposed
    /\ Len(df_filtered) = 2
    /\ RowAt(1).CASEID = RowAt(2).CASEID
    /\ \E f \in Perms(2) : \E other \in {Refilled(f)} :
          /\ other # wb
          /\ CellValue(other, Cell("Sheet1", "J", RowNum(RowAt(2)))) = Num(1)
          /\ CellValue(wb, Cell("Sheet1", "J", RowNum(RowAt(2)))) = NoValue
          /\ \A a \in OnSheet(wb, "Sheet5") : other[a] = wb[a]

\* the cells the sections of the convicted loop are written to increment for
\* one row: Sheet4 by sentence, Sheet5 by age band, Sheet6 and Sheet7 for a
\* juvenile, Sheet9 by statutory row
SectionCells(row) ==
    LET r_num == RowNum(row)
        gender == Get(row, "GENDER", Txt("M"))
        age == Get(row, "AGE", Num(0))
        sent_type == parse_sentence(Get(row, "SENTENCE", Txt("")))
        stat_row == classify_statutory_sheet8(Get(row, "CHARGE", Txt("")))
        all == { Cell("Sheet4", Sheet4Col(sent_type, IsMale(gender)), r_num),
                 Cell("Sheet5", get_age_col_sheet5(age, gender), r_num - 11),
                 Cell("Sheet9", Sheet9Col(sent_type, IsMale(gender)), stat_row) }
               \cup (IF is_juvenile(age)
                     THEN { Cell("Sheet6", "F", r_num - 14),
                            Cell("Sheet7", Sheet7Col(sent_type), r_num - 14) }
                     ELSE {})
    IN {a \in all : a[2] # None /\ a[1] \in sheetnames}

ConvictedSheets == {"Sheet4", "Sheet5", "Sheet6", "Sheet7", "Sheet9"}

(* C10: in Disposed mode with a Sheet6 in the template, after the run each *)
(* empty or numeric cell of Sheets 4, 5, 6, 7 and 9 has grown by the       *)
(* number of CONVICTED rows whose section of that sheet addresses it: the  *)
(* juvenile-offence count of a row aged <= 16 is in Sheet6!F(row id - 14)  *)
(* and in no other sheet.                                                  *)
C10_JuvenileOffenceInSheet6 ==
    (Finished /\ Disposed /\ "Sheet6" \in sheetnames) =>
        \A a \in Addresses(template, wb) \cup UNION {SectionCells(RowAt(k)) : k \in Kept} :
            (a[1] \in ConvictedSheets /\ Countable(CellValue(template, a))) =>
                Delta(template, wb, a) =
                    Cardinality({k \in Kept : /\ Disposition(k) = "CONVICTED"
                                              /\ a \in SectionCells(RowAt(k))})

-----------------------------------------------------------------------------
(* The parsers on their own: the input is drawn in the initial state and   *)
(* one action applies the parser.                                          *)

MaxAge == 50    \* largest integer age tried

ParserOnly ==
    /\ df = <<>> /\ template = <<>> /\ sheetnames = {} /\ wb = <<>>
    /\ mode = "New Cases (Arraignments)"
    /\ is_full_year = TRUE /\ report_month = Undef /\ report_year = 2025
    /\ pc = "parser" /\ runs = 0
    /\ Idle

ParserFrame ==
    UNCHANGED <<df, template, sheetnames, mode, is_full_year, report_month, report_year,
                df_filtered, wb, ws, pc, i, seen_cases, rows_sheet1, rows_sheet3, hits,
                runs, arg>>

Padded(texts) == UNION {{Txt(t), Txt(" " \o t), Txt(t \o " ")} : t \in texts}

ChargeInputs ==
    Padded({"THEFT", "Theft of motor vehicle", "Attempt Murder", "murder",
            "Escape from lawful custody", "Jaywalking", ""}) \cup {NaN}

VictimInputs ==
    Padded({"PC JONES", "Pc Jones", "Jones PC", "cpl", "Police Department", "GOB",
            "John Doe", "MINOR (PC JONES)", "minor, police report", ""}) \cup {NaN}

InitClassify ==
    /\ ParserOnly
    /\ arg \in [charge : ChargeInputs, victim : VictimInputs]
    /\ res = NoValue

Classify ==
    /\ res = NoValue
    /\ res' = Num(classify_crime_sheet1(arg.charge, arg.victim))
    /\ ParserFrame

SpecClassify == InitClassify /\ [][Classify]_vars

AgeInputs ==
    {Num(n) : n \in 0..MaxAge}
    \cup {Txt("16"), Txt(" 17 "), Txt("abc"), Txt("16.5"), Txt(""), NaN}

GenderInputs == {Txt("M"), Txt("F"), Txt("female"), Txt("Male"), NaN}

InitAge ==
    /\ ParserOnly
    /\ arg \in [age : AgeInputs, gender : GenderInputs]
    /\ res = NoValue

AgeBand ==
    /\ res = NoValue
    /\ res' = [col |-> get_age_col_sheet5(arg.age, arg.gender), juv |-> is_juvenile(arg.age)]
    /\ ParserFrame

SpecAge == InitAge /\ [][AgeBand]_vars

SentenceKeywords ==
    {"FINE", "$", "PRISON", "IMPRISONMENT", "CONFINEMENT", "MONTHS", "YEARS",
     "PROBATION", "BOND", "REFORM", "SCHOOL"}

SentenceInputs ==
    UNION {{Txt(pre \o k \o post), Txt(pre \o Lower(k) \o post)} :
           pre \in {"", "6 "}, k \in SentenceKeywords, post \in {"", " order"}}
    \cup {Txt("Fine $500 or 3 months"), Txt("Cautioned and discharged"), Txt(""), NaN}

InitSentence ==
    /\ ParserOnly
    /\ arg \in [text : SentenceInputs]
    /\ res = NoValue

Sentence ==
    /\ res = NoValue
    /\ res' = Txt(parse_sentence(arg.text))
    /\ ParserFrame

SpecSentence == InitSentence /\ [][Sentence]_vars

-----------------------------------------------------------------------------
Applied == res # NoValue

PoliceVictim(v) ==
    /\ \E k \in {"POLICE", "PC ", "CPL ", "GOB"} : Contains(Upper(Str(v)), k)
    /\ ~Contains(Upper(Str(v)), "MINOR")

(* C3: a complainant that contains a police keyword and not MINOR gives    *)
(* row 25, whatever the charge.                                            *)
C3_PoliceOverride == (Applied /\ PoliceVictim(arg.victim)) => res = Num(25)

C3_Witness ==
    /\ Applied
    /\ arg.victim = Txt("PC JONES")
    /\ arg.charge = Txt("Escape from lawful custody")
    /\ res = Num(25)

\* the spellings of one text that differ in letter case or outer whitespace
Respelled(v) ==
    IF IsTxt(v)
    THEN {Txt(Upper(v.s)), Txt(Lower(v.s)), Txt(Strip(v.s)), Txt(" " \o v.s), Txt(v.s \o " ")}
    ELSE {v}

(* C4: the row id returned for a charge and a complainant is the one       *)
(* returned for every respelling of them in another letter case or with    *)
(* leading or trailing whitespace added or removed.                        *)
C4_CaseAndWhitespaceInvariant ==
    Applied =>
        \A c \in Respelled(arg.charge) : \A v \in Respelled(arg.victim) :
            Num(classify_crime_sheet1(c, v)) = res

\* the five bands and their columns for a male / a female defendant
BandLow == <<0, 17, 26, 36, 46>>
BandMale == <<"B", "D", "F", "H", "J">>
BandFemale == <<"C", "E", "G", "I", "K">>
BandOf(n) == CHOOSE b \in 1..5 : BandLow[b] <= n /\ (b = 5 \/ n < BandLow[b + 1])

Parseable(age) == IsNum(age) \/ (IsTxt(age) /\ IsDigits(Strip(age.s)))
AgeOf(age) == IF IsNum(age) THEN age.n ELSE DigitsToNat(Strip(age.s))

(* C8: every non-negative integer age gets the column of exactly one band  *)
(* (<=16, 17-25, 26-35, 36-45, 46+) of its gender, an unparseable age gets *)
(* no column, and is_juvenile is true exactly for the <=16 band.           *)
C8_AgeBands ==
    Applied =>
        IF Parseable(arg.age)
        THEN /\ res.col = (IF IsMale(arg.gender) THEN BandMale ELSE BandFemale)[BandOf(AgeOf(arg.age))]
             /\ res.juv = (BandOf(AgeOf(arg.age)) = 1)
        ELSE res.col = None /\ res.juv = FALSE

C8_Witness ==
    /\ Applied
    /\ arg.age = Num(16) /\ arg.gender = Txt("female")
    /\ res.col = "C" /\ res.juv = TRUE

SentenceGroups ==
    << [kind |-> "FINE", keys |-> {"FINE", "$"}],
       [kind |-> "PRISON", keys |-> {"PRISON", "IMPRISONMENT", "CONFINEMENT", "MONTHS", "YEARS"}],
       [kind |-> "PROBATION", keys |-> {"PROBATION", "BOND"}],
       [kind |-> "REFORMATORY", keys |-> {"REFORM", "SCHOOL"}] >>

HasKeyOf(g) == \E k \in SentenceGroups[g].keys : Contains(Upper(Str(arg.text)), k)

(* C9: the kind is that of the first group, in the order FINE, PRISON,     *)
(* PROBATION, REFORMATORY, with a keyword in the text, OTHER when there is *)
(* none; a text that is one listed keyword gives the kind of that          *)
(* keyword's own group.                                                    *)
C9_KeywordGivesOwnGroup ==
    Applied =>
        /\ \A g \in 1..4 : (HasKeyOf(g) /\ \A h \in 1..(g - 1) : ~HasKeyOf(h)) =>
              res = Txt(SentenceGroups[g].kind)
        /\ \A g \in 1..4 : arg.text \in {Txt(k) : k \in SentenceGroups[g].keys} =>
              res = Txt(SentenceGroups[g].kind)
        /\ (\A g \in 1..4 : \A k \in SentenceGroups[g].keys : ~Contains(Upper(Str(arg.text)), k))
              => res = Txt("OTHER")

====
